---- MODULE Spec2Model ----
(***************************************************************************)
(* Transcript service (yt-dlp wrapper): the /transcript handler, the       *)
(* acquisition cascade downloadAndParseTranscript, the per-attempt         *)
(* workspace handling, the deadline wrapper withTimeout and the pure       *)
(* helpers (parseVTT, parseYtDlpError, selectLanguagePriorities).          *)
(*                                                                         *)
(* Strings the code inspects character by character (language tags,       *)
(* caption documents, file names) are sequences of one-character strings.  *)
(***************************************************************************)
EXTENDS Integers, Sequences, FiniteSets, TLC

\* ------------------------------------------------------------------------
\* String primitives (JavaScript String.prototype methods on char sequences)
\* ------------------------------------------------------------------------

StartsWith(s, p) == Len(p) <= Len(s) /\ SubSeq(s, 1, Len(p)) = p

EndsWith(s, p) == Len(p) <= Len(s) /\ SubSeq(s, Len(s) - Len(p) + 1, Len(s)) = p

Includes(s, p) == \E i \in 1..(Len(s) - Len(p) + 1) : SubSeq(s, i, i + Len(p) - 1) = p

WhiteSpace == {" ", "\t", "\r"}

RECURSIVE TrimStart(_)
TrimStart(s) ==
    IF s # <<>> /\ Head(s) \in WhiteSpace THEN TrimStart(Tail(s)) ELSE s

RECURSIVE TrimEnd(_)
TrimEnd(s) ==
    IF s # <<>> /\ s[Len(s)] \in WhiteSpace THEN TrimEnd(SubSeq(s, 1, Len(s) - 1)) ELSE s

Trim(s) == TrimEnd(TrimStart(s))

\* s.split(c): the pieces of s between occurrences of the character c
RECURSIVE SplitFrom(_, _, _)
SplitFrom(s, c, cur) ==
    IF s = <<>> THEN <<cur>>
    ELSE IF Head(s) = c THEN <<cur>> \o SplitFrom(Tail(s), c, <<>>)
    ELSE SplitFrom(Tail(s), c, Append(cur, Head(s)))

Split(s, c) == SplitFrom(s, c, <<>>)

\* s.replace(/p/g, r) for a literal pattern p: leftmost, non-overlapping
RECURSIVE ReplaceAll(_, _, _)
ReplaceAll(s, p, r) ==
    IF s = <<>> THEN <<>>
    ELSE IF StartsWith(s, p) THEN r \o ReplaceAll(SubSeq(s, Len(p) + 1, Len(s)), p, r)
    ELSE <<Head(s)>> \o ReplaceAll(Tail(s), p, r)

\* lines.join(sep)
RECURSIVE Join(_, _)
Join(lines, sep) ==
    IF lines = <<>> THEN <<>>
    ELSE IF Len(lines) = 1 THEN lines[1]
    ELSE lines[1] \o sep \o Join(Tail(lines), sep)

\* array.filter
Filter(seq, P(_)) == SelectSeq(seq, P)

Range(seq) == {seq[i] : i \in DOMAIN seq}

\* undefined / null of an optional string
Undefined == <<"undefined">>

Find(seq, P(_)) == LET hits == Filter(seq, P) IN IF hits = <<>> THEN Undefined ELSE hits[1]

\* JavaScript truthiness of an optional string
Truthy(s) == s # Undefined /\ s # <<>>

\* ------------------------------------------------------------------------
\* parseVTT
\* ------------------------------------------------------------------------

Digits == {"0", "1", "2", "3", "4", "5", "6", "7", "8", "9"}

S_WEBVTT == <<"W", "E", "B", "V", "T", "T">>
S_Kind == <<"K", "i", "n", "d", ":">>
S_Language == <<"L", "a", "n", "g", "u", "a", "g", "e", ":">>
S_Arrow == <<"-", "-", ">">>
S_NOTE == <<"N", "O", "T", "E">>
S_nbsp == <<"&", "n", "b", "s", "p", ";">>
S_amp == <<"&", "a", "m", "p", ";">>
S_lt == <<"&", "l", "t", ";">>
S_gt == <<"&", "g", "t", ";">>

\* /^\d+$/.test(s)
IsNumeric(s) == s # <<>> /\ \A i \in DOMAIN s : s[i] \in Digits

\* position of the first ">" in s, 0 when there is none
RECURSIVE IndexOfGt(_, _)
IndexOfGt(s, i) ==
    IF i > Len(s) THEN 0 ELSE IF s[i] = ">" THEN i ELSE IndexOfGt(s, i + 1)

\* s.replace(/<[^>]+>/g, "")
RECURSIVE StripTags(_)
StripTags(s) ==
    IF s = <<>> THEN <<>>
    ELSE LET close == IndexOfGt(s, 2) IN
         IF Head(s) = "<" /\ close > 2
         THEN StripTags(SubSeq(s, close + 1, Len(s)))
         ELSE <<Head(s)>> \o StripTags(Tail(s))

CleanText(trimmed) ==
    Trim(ReplaceAll(ReplaceAll(ReplaceAll(ReplaceAll(StripTags(trimmed),
        S_nbsp, <<" ">>), S_amp, <<"&">>), S_lt, <<"<">>), S_gt, <<">">>))

IsHeaderLine(trimmed) ==
    \/ trimmed = S_WEBVTT
    \/ trimmed = <<>>
    \/ StartsWith(trimmed, S_Kind)
    \/ StartsWith(trimmed, S_Language)

IsTimestampLine(trimmed) == Includes(trimmed, S_Arrow)

IsCueIdLine(trimmed) == IsNumeric(trimmed) \/ StartsWith(trimmed, S_NOTE)

\* a loop in which header and empty lines leave inCue as it is
RECURSIVE CollectLines_NoReset(_, _, _)
CollectLines_NoReset(lines, inCue, textLines) ==
    IF lines = <<>> THEN textLines
    ELSE LET trimmed == Trim(Head(lines))
             rest == Tail(lines)
         IN IF IsHeaderLine(trimmed) THEN CollectLines_NoReset(rest, inCue, textLines)
            ELSE IF IsTimestampLine(trimmed) THEN CollectLines_NoReset(rest, TRUE, textLines)
            ELSE IF IsCueIdLine(trimmed) THEN CollectLines_NoReset(rest, inCue, textLines)
            ELSE IF inCue /\ trimmed # <<>> /\ CleanText(trimmed) # <<>>
                 THEN CollectLines_NoReset(rest, inCue, Append(textLines, CleanText(trimmed)))
                 ELSE CollectLines_NoReset(rest, inCue, textLines)

\* the loop of parseVTT: textLines collected from lines, given inCue
RECURSIVE CollectLines(_, _, _)
CollectLines(lines, inCue, textLines) ==
    IF lines = <<>> THEN textLines
    ELSE LET trimmed == Trim(Head(lines))
             rest == Tail(lines)
         IN IF IsHeaderLine(trimmed) THEN CollectLines(rest, FALSE, textLines)
            ELSE IF IsTimestampLine(trimmed) THEN CollectLines(rest, TRUE, textLines)
            ELSE IF IsCueIdLine(trimmed) THEN CollectLines(rest, inCue, textLines)
            ELSE IF inCue /\ trimmed # <<>> /\ CleanText(trimmed) # <<>>
                 THEN CollectLines(rest, inCue, Append(textLines, CleanText(trimmed)))
                 ELSE CollectLines(rest, inCue, textLines)

\* a filter that drops every line met before, adjacent or not
Deduplicate_Anywhere(textLines) ==
    LET kept[i \in 0..Len(textLines)] ==
            IF i = 0 THEN <<>>
            ELSE IF textLines[i] \notin Range(kept[i - 1])
                 THEN Append(kept[i - 1], textLines[i])
                 ELSE kept[i - 1]
    IN kept[Len(textLines)]

\* textLines.filter((line, index) => index === 0 || line !== textLines[index - 1])
Deduplicate(textLines) ==
    LET kept[i \in 0..Len(textLines)] ==
            IF i = 0 THEN <<>>
            ELSE IF i = 1 \/ textLines[i] # textLines[i - 1]
                 THEN Append(kept[i - 1], textLines[i])
                 ELSE kept[i - 1]
    IN kept[Len(textLines)]

parseVTT(content) ==
    Join(Deduplicate(CollectLines(Split(content, "\n"), FALSE, <<>>)), <<"\n">>)

\* ------------------------------------------------------------------------
\* parseYtDlpError
\* ------------------------------------------------------------------------

\* The diagnostic text of the tool is kept as the set of the marker
\* substrings it contains: stderr.includes(m) is m \in stderr.
StderrMarkers ==
    {"Video unavailable", "is not a valid URL", "Incomplete YouTube ID",
     "429", "Too Many Requests", "Private video", "Sign in"}

\* new TranscriptError(message, code, statusCode); `at` stands for the
\* identity of the error object (the place that constructed it)
TranscriptError(message, code, statusCode, at) ==
    [te |-> TRUE, message |-> message, code |-> code, statusCode |-> statusCode, at |-> at]

\* an exception that is not a TranscriptError (SyntaxError of JSON.parse, ...)
ForeignError(name, at) ==
    [te |-> FALSE, message |-> name, code |-> "none", statusCode |-> 0, at |-> at]

parseYtDlpError(stderr, at) ==
    IF "Video unavailable" \in stderr \/ "is not a valid URL" \in stderr
       \/ "Incomplete YouTube ID" \in stderr
    THEN TranscriptError("Video not found", "VIDEO_NOT_FOUND", 404, at)
    ELSE IF "429" \in stderr \/ "Too Many Requests" \in stderr
    THEN TranscriptError("Rate limited by YouTube", "RATE_LIMITED", 429, at)
    ELSE IF "Private video" \in stderr \/ "Sign in" \in stderr
    THEN TranscriptError("Video is private or requires authentication", "ACCESS_DENIED", 403, at)
    ELSE TranscriptError("yt-dlp error", "UNKNOWN", 500, at)

\* ------------------------------------------------------------------------
\* selectLanguagePriorities
\* ------------------------------------------------------------------------

S_orig == <<"-", "o", "r", "i", "g">>
S_en == <<"e", "n">>
S_enDash == <<"e", "n", "-">>
S_live_chat == <<"l", "i", "v", "e", "_", "c", "h", "a", "t">>

\* lang.split("-")[0]
baseLangCode(lang) == Split(lang, "-")[1]

\* a match on the exact tag only
findMatchingLang_ExactOnly(langs, target) ==
    IF target \in Range(langs) THEN target ELSE Undefined

findMatchingLang(langs, target) ==
    IF target \in Range(langs) THEN target
    ELSE LET base == baseLangCode(target)
             IsBase(l) == l = base /\ ~EndsWith(l, S_orig)
         IN Find(langs, IsBase)

\* a prioritizer that filters nothing
invalidLangs_None == {}

invalidLangs == {S_live_chat}

\* a closure that pushes without looking at seen
add_Unseen(results, lang, isManual) ==
    Append(results, [lang |-> lang, isManual |-> isManual])

\* the closure add(lang, isManual) over results (seen holds exactly the
\* keys `${lang}:${isManual}` of the elements of results)
add(results, lang, isManual) ==
    IF [lang |-> lang, isManual |-> isManual] \in Range(results)
    THEN results
    ELSE Append(results, [lang |-> lang, isManual |-> isManual])

\* for (const l of langs) add(l, isManual)
RECURSIVE addAll(_, _, _)
addAll(results, langs, isManual) ==
    IF langs = <<>> THEN results
    ELSE addAll(add(results, Head(langs), isManual), Tail(langs), isManual)

\* (l) => l === "en" || l.startsWith("en-") && !l.endsWith("-orig")
IsEnglishAuto(l) == l = S_en \/ (StartsWith(l, S_enDash) /\ ~EndsWith(l, S_orig))

\* info = [language, subtitles, automatic_captions]; the two maps are kept
\* as their key sequences (Object.keys order), language is Undefined for null
selectLanguagePriorities(info) ==
    LET originalLang == info.language
        Valid(l) == l \notin invalidLangs
        manualLangs == Filter(info.subtitles, Valid)
        autoLangs == Filter(info.automatic_captions, Valid)
        \* Priority 1: manual in original language
        match == IF Truthy(originalLang)
                 THEN findMatchingLang(manualLangs, originalLang) ELSE Undefined
        r1 == IF Truthy(match) THEN add(<<>>, match, TRUE) ELSE <<>>
        \* Priority 2: manual in English
        IsEn(l) == StartsWith(l, S_en)
        enManual == Find(manualLangs, IsEn)
        r2 == IF Truthy(enManual) THEN add(r1, enManual, TRUE) ELSE r1
        \* Priority 3: any manual
        r3 == addAll(r2, manualLangs, TRUE)
        \* Priority 4: auto in original language using the base code
        base == IF Truthy(originalLang) THEN baseLangCode(originalLang) ELSE Undefined
        r4 == IF Truthy(originalLang)
                 /\ \E i \in DOMAIN autoLangs :
                        autoLangs[i] = base \/ autoLangs[i] = base \o S_orig
              THEN add(r3, base, FALSE) ELSE r3
        \* Priority 5: auto in English
        enAuto == Find(autoLangs, IsEnglishAuto)
        r5 == IF Truthy(enAuto) THEN add(r4, S_en, FALSE) ELSE r4
    IN  \* Priority 7: any remaining auto
        addAll(r5, autoLangs, FALSE)

\* ------------------------------------------------------------------------
\* isValidYouTubeUrl, extractVideoId
\* ------------------------------------------------------------------------

\* A request URL as `new URL(url)` sees it: parses tells whether the
\* constructor succeeds, hostname and pathname are its fields, v is
\* searchParams.get("v") (Undefined for null).
S_youtube_com == <<"y", "o", "u", "t", "u", "b", "e", ".", "c", "o", "m">>
S_www_youtube_com == <<"w", "w", "w", ".", "y", "o", "u", "t", "u", "b", "e", ".", "c", "o", "m">>
S_m_youtube_com == <<"m", ".", "y", "o", "u", "t", "u", "b", "e", ".", "c", "o", "m">>
S_youtu_be == <<"y", "o", "u", "t", "u", ".", "b", "e">>
S_www_youtu_be == <<"w", "w", "w", ".", "y", "o", "u", "t", "u", ".", "b", "e">>
S_watch == <<"/", "w", "a", "t", "c", "h">>

validHosts ==
    {S_youtube_com, S_www_youtube_com, S_m_youtube_com, S_youtu_be, S_www_youtu_be}

\* a validation that accepts every host
isValidYouTubeUrl_AnyHost(url) == url.parses

isValidYouTubeUrl(url) ==
    /\ url.parses
    /\ \E host \in validHosts :
          url.hostname = host \/ EndsWith(url.hostname, <<".">> \o host)

PathPrefixes == {<<"/", "v", "/">>, <<"/", "e", "m", "b", "e", "d", "/">>, <<"/", "s", "h", "o", "r", "t", "s", "/">>, <<"/", "l", "i", "v", "e", "/">>}

\* the longest prefix of s made of characters other than "/" and "?"
RECURSIVE IdSegment(_)
IdSegment(s) ==
    IF s = <<>> \/ Head(s) \in {"/", "?"} THEN <<>>
    ELSE <<Head(s)>> \o IdSegment(Tail(s))

\* x || null, for a string x
OrNull(x) == IF Truthy(x) THEN x ELSE Undefined

extractVideoId(url) ==
    IF ~url.parses THEN Undefined
    ELSE IF Includes(url.hostname, S_youtu_be)
    THEN OrNull(Split(Tail(url.pathname), "/")[1])
    ELSE IF url.pathname = S_watch THEN url.v
    ELSE IF \E p \in PathPrefixes :
                StartsWith(url.pathname, p)
                /\ IdSegment(SubSeq(url.pathname, Len(p) + 1, Len(url.pathname))) # <<>>
    THEN LET p == CHOOSE q \in PathPrefixes :
                      StartsWith(url.pathname, q)
                      /\ IdSegment(SubSeq(url.pathname, Len(q) + 1, Len(url.pathname))) # <<>>
         IN IdSegment(SubSeq(url.pathname, Len(p) + 1, Len(url.pathname)))
    ELSE Undefined

\* ------------------------------------------------------------------------
\* Bounds and input sets
\* ------------------------------------------------------------------------

\* largest value of Date.now() (milliseconds since the first request)
MaxClock == 1

\* number of requests in flight in the concurrent specification
MaxRequests == 2

V_abc == <<"a", "b", "c">>
V_xyz == <<"x", "y", "z">>
V_one == <<"o", "n", "e">>

UrlWatch == [parses |-> TRUE, hostname |-> S_www_youtube_com, pathname |-> S_watch, v |-> V_abc]
UrlWatchOne == [parses |-> TRUE, hostname |-> S_youtube_com, pathname |-> S_watch, v |-> V_one]
UrlShort == [parses |-> TRUE, hostname |-> S_youtu_be, pathname |-> <<"/", "x", "y", "z">>, v |-> Undefined]
UrlEmbed == [parses |-> TRUE, hostname |-> S_m_youtube_com, pathname |-> <<"/", "e", "m", "b", "e", "d", "/", "a", "b", "c", "/", "x">>, v |-> Undefined]
UrlOtherHost == [parses |-> TRUE, hostname |-> <<"e", "x", "a", "m", "p", "l", "e", ".", "c", "o", "m">>, pathname |-> S_watch, v |-> V_abc]
UrlNoId == [parses |-> TRUE, hostname |-> S_youtube_com, pathname |-> <<"/", "f", "e", "e", "d">>, v |-> Undefined]
UrlMalformed == [parses |-> FALSE, hostname |-> <<>>, pathname |-> <<>>, v |-> Undefined]
\* https://www.youtube.com/watch?v= and https://youtu.be/
UrlWatchEmpty == [parses |-> TRUE, hostname |-> S_www_youtube_com, pathname |-> S_watch, v |-> <<>>]
UrlShortEmpty == [parses |-> TRUE, hostname |-> S_youtu_be, pathname |-> <<"/">>, v |-> Undefined]
\* c.req.query("url") is undefined
UrlMissing == [parses |-> FALSE, hostname |-> Undefined, pathname |-> Undefined, v |-> Undefined]

Urls ==
    {UrlWatch, UrlWatchOne, UrlShort, UrlEmbed, UrlOtherHost, UrlNoId, UrlWatchEmpty,
     UrlShortEmpty, UrlMalformed, UrlMissing}

L_auto == <<"a", "u", "t", "o">>
L_fr == <<"f", "r">>
L_de == <<"d", "e">>
L_pt == <<"p", "t">>
L_ptBR == <<"p", "t", "-", "B", "R">>
L_ptOrig == <<"p", "t", "-", "o", "r", "i", "g">>
L_es == <<"e", "s">>
L_esOrig == <<"e", "s", "-", "o", "r", "i", "g">>
L_enUS == <<"e", "n", "-", "U", "S">>

\* values of c.req.query("lang"): absent, "auto", "" and a language
LangParams == {Undefined, L_auto, <<>>, L_fr}

\* what `yt-dlp --print` may report for a video
InfoPt == [language |-> L_ptBR, subtitles |-> <<L_pt>>, automatic_captions |-> <<L_ptOrig, S_en>>]
InfoEnOnlyAuto == [language |-> Undefined, subtitles |-> <<>>, automatic_captions |-> <<L_enUS>>]
InfoEnBoth == [language |-> S_en, subtitles |-> <<S_en>>, automatic_captions |-> <<S_en, L_es, L_fr>>]
InfoChat == [language |-> Undefined, subtitles |-> <<S_live_chat>>, automatic_captions |-> <<>>]
InfoEs == [language |-> L_es, subtitles |-> <<>>, automatic_captions |-> <<L_esOrig>>]
\* one manual track and nothing else
InfoFr == [language |-> Undefined, subtitles |-> <<L_fr>>, automatic_captions |-> <<>>]
\* every field of the tool's answer is missing or empty
InfoNone == [language |-> Undefined, subtitles |-> <<>>, automatic_captions |-> <<>>]

\* The video "one" has a single availability snapshot; of the other videos the
\* tool may report any of the snapshots.
Infos(vid) ==
    IF vid = V_one THEN {InfoEnOnlyAuto}
    ELSE {InfoPt, InfoEnOnlyAuto, InfoEnBoth, InfoChat, InfoEs, InfoFr, InfoNone}

\* caption documents the tool may write
DocEmpty == <<>>
DocHeaderOnly == <<"W", "E", "B", "V", "T", "T", "\n", "\n", "0", "0", ":", "0", "1", " ", "-", "-", ">", " ", "0", "0", ":", "0", "2", "\n">>
DocHi == <<"W", "E", "B", "V", "T", "T", "\n", "\n", "1", "\n", "0", "0", ":", "0", "1", " ", "-", "-", ">", " ", "0", "0", ":", "0", "2", "\n", "<", "c", ">", "h", "i", "<", "/", "c", ">", "\n", "h", "i", "\n">>

\* every caption track of the video "one" has the same text
Docs(vid) == IF vid = V_one THEN {DocHi} ELSE {DocEmpty, DocHeaderOnly, DocHi}

\* diagnostic texts of a failed tool run (sets of markers, see StderrMarkers)
\* (the video "one" exists and is public: its runs fail by throttling only)
Stderrs(vid) ==
    IF vid = V_one THEN {{"429"}}
    ELSE {m \in SUBSET StderrMarkers : Cardinality(m) <= 1} \cup {{"429", "Sign in"}}

\* ------------------------------------------------------------------------
\* findSubtitleFile, findAnySubtitleFile
\* ------------------------------------------------------------------------

S_dotAutoDot == <<".", "a", "u", "t", "o", ".">>
S_dotAutoVtt == <<".", "a", "u", "t", "o", ".", "v", "t", "t">>
S_dotVtt == <<".", "v", "t", "t">>

\* A caption file of a workspace: its name and its content.
\* Bun.Glob(`${prefix}*.vtt`).match(name)
GlobMatch(name, prefix) ==
    /\ StartsWith(name, prefix)
    /\ EndsWith(name, S_dotVtt)
    /\ Len(name) >= Len(prefix) + Len(S_dotVtt)
    /\ \A i \in (Len(prefix) + 1)..(Len(name) - Len(S_dotVtt)) : name[i] # "/"

IsAutoName(name) == Includes(name, S_dotAutoDot)

\* The directory scan yields the files in an order the code does not fix, so
\* files.find may return any file that satisfies the test: the operators
\* return the set of results the call can have, {} standing for null.
findSubtitleFile(files, vid, targetLang) ==
    LET matches == {f \in files : GlobMatch(f.name, vid \o <<".">> \o targetLang)}
        manual == {f \in matches : ~IsAutoName(f.name)}
    IN IF manual # {} THEN {[file |-> f, type |-> "manual"] : f \in manual}
       ELSE {[file |-> f, type |-> "auto"] : f \in matches}

\* s.replace(p, "") for a literal p: the first occurrence only
RECURSIVE RemoveFirst(_, _)
RemoveFirst(s, p) ==
    IF s = <<>> THEN <<>>
    ELSE IF StartsWith(s, p) THEN SubSeq(s, Len(p) + 1, Len(s))
    ELSE <<Head(s)>> \o RemoveFirst(Tail(s), p)

RemoveSuffix(s, p) == IF EndsWith(s, p) THEN SubSeq(s, 1, Len(s) - Len(p)) ELSE s

extractLang(name, vid) ==
    RemoveSuffix(RemoveSuffix(RemoveFirst(name, vid \o <<".">>), S_dotAutoVtt), S_dotVtt)

findAnySubtitleFile(files, vid) ==
    LET matches == {f \in files : GlobMatch(f.name, vid \o <<".">>)}
        manual == {f \in matches : ~IsAutoName(f.name)}
    IN IF manual # {}
       THEN {[file |-> f, type |-> "manual", lang |-> extractLang(f.name, vid)] : f \in manual}
       ELSE {[file |-> f, type |-> "auto", lang |-> extractLang(f.name, vid)] : f \in matches}

\* ------------------------------------------------------------------------
\* Results of the asynchronous functions
\* ------------------------------------------------------------------------

NoError == [te |-> FALSE, message |-> "none", code |-> "none", statusCode |-> 0, at |-> "none"]

\* a promise that has not settled
Pending ==
    [state |-> "pending", err |-> NoError, transcript |-> <<>>, subtitleType |-> "none",
     detectedLanguage |-> Undefined, wasAutoDetected |-> FALSE]

Fulfilled(transcript, subtitleType, detectedLanguage, wasAutoDetected) ==
    [state |-> "fulfilled", err |-> NoError, transcript |-> transcript,
     subtitleType |-> subtitleType, detectedLanguage |-> detectedLanguage,
     wasAutoDetected |-> wasAutoDetected]

Rejected(err) ==
    [state |-> "rejected", err |-> err, transcript |-> <<>>, subtitleType |-> "none",
     detectedLanguage |-> Undefined, wasAutoDetected |-> FALSE]

\* the caption files the tool may leave in a workspace when asked for targetLang
ToolFiles(vid, targetLang) ==
    {[name |-> vid \o <<".">> \o l \o sfx, doc |-> d] :
        l \in {targetLang, L_de}, sfx \in {S_dotVtt, S_dotAutoVtt}, d \in Docs(vid)}

\* one run of the tool in download mode: exit status, diagnostic text, files
ToolRuns(vid, targetLang) ==
    {[exitCode |-> 1, stderr |-> e, files |-> {}] : e \in Stderrs(vid)}
    \cup {[exitCode |-> 0, stderr |-> {}, files |-> fs_] :
            fs_ \in {x \in SUBSET ToolFiles(vid, targetLang) : Cardinality(x) <= 2}}

\* an attempt that accepts any transcript
IsEmptyTranscript_Never(transcript) == FALSE

\* if (!transcript.trim())
IsEmptyTranscript(transcript) == Trim(transcript) = <<>>

\* the body of the try block of tryDownloadSubtitle after the tool has
\* exited: the set of ways it can complete
tryDownloadSubtitleBody(run, vid, targetLang, at) ==
    IF run.exitCode # 0 THEN {Rejected(parseYtDlpError(run.stderr, at))}
    ELSE LET found == findSubtitleFile(run.files, vid, targetLang) IN
         IF found = {}
         THEN {Rejected(TranscriptError("No subtitles available for language",
                                        "NO_SUBTITLES", 404, at))}
         ELSE {LET transcript == parseVTT(s.file.doc) IN
               IF IsEmptyTranscript(transcript)
               THEN Rejected(TranscriptError("Transcript is empty", "NO_SUBTITLES", 404, at))
               ELSE Fulfilled(transcript, s.type, Undefined, FALSE) : s \in found}

\* the same for tryDownloadOriginalSubtitle
tryDownloadOriginalSubtitleBody(run, vid, at) ==
    IF run.exitCode # 0 THEN {Rejected(parseYtDlpError(run.stderr, at))}
    ELSE LET found == findAnySubtitleFile(run.files, vid) IN
         IF found = {}
         THEN {Rejected(TranscriptError("No auto-generated subtitles available",
                                        "NO_SUBTITLES", 404, at))}
         ELSE {LET transcript == parseVTT(s.file.doc) IN
               IF IsEmptyTranscript(transcript)
               THEN Rejected(TranscriptError("Transcript is empty", "NO_SUBTITLES", 404, at))
               ELSE Fulfilled(transcript, s.type, s.lang, FALSE) : s \in found}

\* ------------------------------------------------------------------------
\* State
\* ------------------------------------------------------------------------

VARIABLES
    now,        \* Date.now()
    fs,         \* the workspaces (directories under /tmp/subs) that exist
    inbox,      \* request id -> the query of the request (url, lang)
    handler,    \* request id -> position of the /transcript handler
    videoId,    \* request id -> videoId of downloadAndParseTranscript
    acq,        \* request id -> position of downloadAndParseTranscript
    info,       \* request id -> subtitleInfo
    lastError,  \* request id -> lastError of the cascade
    log,        \* request id -> the download attempts made, oldest first
    acqResult,  \* request id -> the promise of downloadAndParseTranscript
    timer,      \* request id -> the setTimeout of the acquisition deadline
    meta,       \* request id -> position of getVideoMetadata
    metaResult, \* request id -> the promise of getVideoMetadata
    metaTimer,  \* request id -> the setTimeout of the metadata deadline
    resp,       \* request id -> the responses sent, oldest first
    call        \* a function applied on its own: its name, argument and result

vars == <<now, fs, inbox, handler, videoId, acq, info, lastError, log, acqResult,
          timer, meta, metaResult, metaTimer, resp, call>>

Requests == DOMAIN inbox

\* no function is applied on its own
NoCall == [fn |-> "none", arg |-> <<>>, ret |-> <<>>, done |-> FALSE]

NoInfo == [language |-> Undefined, subtitles |-> <<>>, automatic_captions |-> <<>>]

TypeOK ==
    /\ now \in 0..(MaxClock + 1)
    /\ \A r \in Requests :
        /\ handler[r] \in {"idle", "awaitAcq", "awaitMeta", "done"}
        /\ acq[r] \in {"none", "avail", "mkdir", "tool", "cleanup", "settled"}
        /\ timer[r] \in {"off", "armed", "fired"}
        /\ metaTimer[r] \in {"off", "armed", "fired"}
        /\ meta[r] \in {"none", "running", "settled"}
        /\ Len(resp[r]) <= 2

InitWith(queries) ==
    /\ now = 0
    /\ fs = {}
    /\ inbox \in queries
    /\ handler = [r \in DOMAIN inbox |-> "idle"]
    /\ videoId = [r \in DOMAIN inbox |-> Undefined]
    /\ acq = [r \in DOMAIN inbox |-> "none"]
    /\ info = [r \in DOMAIN inbox |-> NoInfo]
    /\ lastError = [r \in DOMAIN inbox |-> NoError]
    /\ log = [r \in DOMAIN inbox |-> <<>>]
    /\ acqResult = [r \in DOMAIN inbox |-> Pending]
    /\ timer = [r \in DOMAIN inbox |-> "off"]
    /\ meta = [r \in DOMAIN inbox |-> "none"]
    /\ metaResult = [r \in DOMAIN inbox |-> Pending]
    /\ metaTimer = [r \in DOMAIN inbox |-> "off"]
    /\ resp = [r \in DOMAIN inbox |-> <<>>]

\* one request, any query
Init == InitWith([{1} -> [url : Urls, lang : LangParams]]) /\ call = NoCall

\* MaxRequests requests for the video "one", in flight together: the first
\* in either mode, the others for an explicit language
InitConc ==
    /\ InitWith({q \in [1..MaxRequests -> [url : {UrlWatchOne}, lang : {Undefined, L_fr}]] :
                    \A r \in 2..MaxRequests : q[r].lang = L_fr})
    /\ call = NoCall

\* ------------------------------------------------------------------------
\* Responses of the handler
\* ------------------------------------------------------------------------

ErrorJson(code, statusCode) == [success |-> FALSE, code |-> code, statusCode |-> statusCode]

SuccessJson == [success |-> TRUE, code |-> "none", statusCode |-> 200]

\* a catch block that answers with whatever the exception carries
CatchResponse_Raw(err) == ErrorJson(err.code, err.statusCode)

\* the catch block of the handler
CatchResponse(err) ==
    IF err.te THEN ErrorJson(err.code, err.statusCode) ELSE ErrorJson("UNKNOWN", 500)

\* ------------------------------------------------------------------------
\* Steps of one download attempt
\* ------------------------------------------------------------------------

\* the attempt in progress (or the last one made) of request r
Cur(r) == log[r][Len(log[r])]

AttemptLabel(kind, idx) ==
    IF kind = "ranked" THEN (IF idx = 0 THEN "ranked0" ELSE IF idx = 1 THEN "ranked1" ELSE "ranked2+")
    ELSE kind

\* `/tmp/subs/${videoId}_${Date.now()}`
outputDir(vid, t) == <<vid, t>>

\* tryDownloadSubtitle / tryDownloadOriginalSubtitle up to `await mkdir`:
\* lg is the log so far, targetLang the value given to --sub-lang
StartAttempt(r, lg, vid, kind, idx, targetLang) ==
    /\ acq' = [acq EXCEPT ![r] = "mkdir"]
    /\ log' = [log EXCEPT ![r] = Append(lg,
                 [kind |-> kind, idx |-> idx, lang |-> targetLang,
                  autoOnly |-> (kind = "fallback"),
                  dir |-> outputDir(vid, now),
                  late |-> (timer[r] = "fired"),
                  out |-> Pending])]

\* the promise of downloadAndParseTranscript settles with res; the handler,
\* if it still awaits the race of withTimeout, goes on in the same turn
Settle(r, res) ==
    /\ acq' = [acq EXCEPT ![r] = "settled"]
    /\ acqResult' = [acqResult EXCEPT ![r] = res]
    /\ IF handler[r] = "awaitAcq"
       THEN IF res.state = "fulfilled"
            THEN /\ handler' = [handler EXCEPT ![r] = "awaitMeta"]
                 /\ meta' = [meta EXCEPT ![r] = "running"]
                 /\ metaTimer' = [metaTimer EXCEPT ![r] = "armed"]
                 /\ resp' = resp
            ELSE /\ handler' = [handler EXCEPT ![r] = "done"]
                 /\ resp' = [resp EXCEPT ![r] = Append(@, CatchResponse(res.err))]
                 /\ UNCHANGED <<meta, metaTimer>>
       ELSE UNCHANGED <<handler, meta, metaTimer, resp>>

\* ------------------------------------------------------------------------
\* downloadAndParseTranscript
\* ------------------------------------------------------------------------

\* the cap of the ranked attempts: Math.min(priorities.length, 2)
MaxRankedAttempts == 2

\* a cascade whose ranked loop makes no turn
maxAttempts_None(priorities) == 0

\* a cascade without the cap
maxAttempts_NoCap(priorities) == Len(priorities)

maxAttempts(priorities) ==
    IF Len(priorities) < MaxRankedAttempts THEN Len(priorities) ELSE MaxRankedAttempts

\* a cascade that goes on after any engine error
IsRateLimited_AnyEngineError(error) == error.te

\* error instanceof TranscriptError && error.code === "RATE_LIMITED"
IsRateLimited(error) == error.te /\ error.code = "RATE_LIMITED"

\* a catch block that rethrows the last-resort attempt's own error
FallbackThrow_OwnError(lastErr, error) ==
    IF error.te THEN error
    ELSE IF lastErr # NoError THEN lastErr
    ELSE TranscriptError("No subtitles available for this video", "NO_SUBTITLES", 404, "cascade")

\* what the catch block of the last-resort attempt throws
FallbackThrow(lastErr, error) ==
    IF IsRateLimited(error) THEN error
    ELSE IF lastErr # NoError THEN lastErr
    ELSE IF error.te THEN error
    ELSE TranscriptError("No subtitles available for this video", "NO_SUBTITLES", 404, "cascade")

\* subtitleInfo.language ?? "en"
FallbackLanguage(subtitleInfo) ==
    IF subtitleInfo.language = Undefined THEN S_en ELSE subtitleInfo.language

\* a last resort that passes the original language as it is
FallbackSubLang_WholeTag(originalLang) == originalLang

\* const baseLang = originalLang.split("-")[0]
FallbackSubLang(originalLang) == Split(originalLang, "-")[1]

\* a cascade that treats every language as the auto sentinel
IsExplicit_Never(l) == FALSE

\* if (lang && lang !== "auto")
IsExplicit(l) == Truthy(l) /\ l # L_auto

\* const lang = langParam === "auto" ? undefined : langParam
HandlerLang(langParam) == IF langParam = L_auto THEN Undefined ELSE langParam

\* one run of the tool in --print mode: exit status, diagnostic text, and
\* whether stdout is a JSON document
PrintRuns(vid) ==
    {[exitCode |-> 1, stderr |-> e, json |-> FALSE] : e \in Stderrs(vid)}
    \cup {[exitCode |-> 0, stderr |-> {}, json |-> j] : j \in BOOLEAN}

\* a finally block that is skipped once the handler has answered
RemoveDir_WhileAwaited(dirs, dir) ==
    IF \E r \in Requests : handler[r] = "done" THEN dirs ELSE dirs \ {dir}

\* an attempt without the finally block
RemoveDir_Forgotten(dirs, dir) == dirs

\* rm -rf ${outputDir}
RemoveDir(dirs, dir) == dirs \ {dir}

\* the value returned (or the error rethrown) for an attempt that completed
\* with out: explicit mode, a ranked candidate, the last resort
ExplicitResult(out, requested) ==
    IF out.state = "fulfilled"
    THEN Fulfilled(out.transcript, out.subtitleType, requested, FALSE)
    ELSE out

RankedResult(out, selectedLang) ==
    IF out.state = "fulfilled"
    THEN Fulfilled(out.transcript, out.subtitleType, selectedLang, TRUE)
    ELSE out

\* a last resort that reports its language as requested, not detected
FallbackResult_NotAuto(out, lastErr) ==
    IF out.state = "fulfilled"
    THEN Fulfilled(out.transcript, out.subtitleType, out.detectedLanguage, FALSE)
    ELSE Rejected(FallbackThrow(lastErr, out.err))

FallbackResult(out, lastErr) ==
    IF out.state = "fulfilled"
    THEN Fulfilled(out.transcript, out.subtitleType, out.detectedLanguage, TRUE)
    ELSE Rejected(FallbackThrow(lastErr, out.err))

\* a deadline error built with the default status of TranscriptError
TimeoutError_Default(errorMessage) == TranscriptError(errorMessage, "UNKNOWN", 500, "timeout")

\* new TranscriptError(errorMessage, "TIMEOUT", 504) of withTimeout
TimeoutError(errorMessage) == TranscriptError(errorMessage, "TIMEOUT", 504, "timeout")

\* GET /transcript up to its first await
Receive(r) ==
    /\ handler[r] = "idle"
    /\ \A q \in Requests : q < r => handler[q] # "idle"
    /\ LET url == inbox[r].url
           l == HandlerLang(inbox[r].lang)
           vid == extractVideoId(url)
       IN IF url = UrlMissing \/ ~isValidYouTubeUrl(url)
          THEN /\ handler' = [handler EXCEPT ![r] = "done"]
               /\ resp' = [resp EXCEPT ![r] = Append(@, ErrorJson("INVALID_URL", 400))]
               /\ UNCHANGED <<videoId, acq, log, acqResult, timer>>
          ELSE /\ timer' = [timer EXCEPT ![r] = "armed"]
               /\ videoId' = [videoId EXCEPT ![r] = vid]
               /\ IF ~Truthy(vid)
                  THEN /\ acq' = [acq EXCEPT ![r] = "settled"]
                       /\ acqResult' = [acqResult EXCEPT ![r] = Rejected(
                              TranscriptError("Could not extract video ID", "INVALID_URL", 400, "cascade"))]
                       /\ handler' = [handler EXCEPT ![r] = "done"]
                       /\ resp' = [resp EXCEPT ![r] = Append(@, ErrorJson("INVALID_URL", 400))]
                       /\ log' = log
                  ELSE /\ handler' = [handler EXCEPT ![r] = "awaitAcq"]
                       /\ UNCHANGED <<resp, acqResult>>
                       /\ IF IsExplicit(l)
                          THEN StartAttempt(r, log[r], vid, "explicit", 0, l)
                          ELSE /\ acq' = [acq EXCEPT ![r] = "avail"]
                               /\ log' = log
    /\ UNCHANGED <<call, metaResult, now, fs, inbox, info, lastError, meta, metaTimer>>

\* a cascade that goes on with an empty candidate list
NoCandidates_Never(priorities) == FALSE

\* if (priorities.length === 0)
NoCandidates(priorities) == Len(priorities) = 0

\* a cascade that goes to the last resort whatever getAvailableSubtitles did
AvailDone_GoesOn(r) ==
    /\ acq[r] = "avail"
    /\ StartAttempt(r, log[r], videoId[r], "fallback", 0, S_en)
    /\ UNCHANGED <<call, metaResult, now, fs, inbox, handler, videoId, info, lastError,
                   acqResult, timer, meta, metaTimer, resp>>

\* getAvailableSubtitles returns or throws; the cascade goes on to the first
\* ranked attempt (the loop `for (let i = 0; i < maxAttempts; i++)`) or, with no
\* turn of the loop, to the last resort
AvailDone(r) ==
    /\ acq[r] = "avail"
    /\ \E run \in PrintRuns(videoId[r]), data \in Infos(videoId[r]) :
        IF run.exitCode # 0
        THEN /\ Settle(r, Rejected(parseYtDlpError(run.stderr, "avail")))
             /\ UNCHANGED <<info, log>>
        ELSE IF ~run.json
        THEN /\ Settle(r, Rejected(ForeignError("SyntaxError", "avail")))
             /\ UNCHANGED <<info, log>>
        ELSE /\ info' = [info EXCEPT ![r] = data]
             /\ LET priorities == selectLanguagePriorities(data) IN
                IF NoCandidates(priorities)
                THEN /\ Settle(r, Rejected(TranscriptError(
                            "No subtitles available for this video", "NO_SUBTITLES", 404, "cascade")))
                     /\ log' = log
                ELSE /\ IF 0 < maxAttempts(priorities)
                        THEN StartAttempt(r, log[r], videoId[r], "ranked", 0, priorities[1].lang)
                        ELSE StartAttempt(r, log[r], videoId[r], "fallback", 0,
                                          FallbackSubLang(FallbackLanguage(data)))
                     /\ UNCHANGED <<handler, acqResult, meta, metaTimer, resp>>
    /\ UNCHANGED <<call, metaResult, now, fs, inbox, videoId, lastError, timer>>

\* mkdir -p ${outputDir} has run; the tool is started
MkdirDone(r) ==
    /\ acq[r] = "mkdir"
    /\ fs' = fs \cup {Cur(r).dir}
    /\ acq' = [acq EXCEPT ![r] = "tool"]
    /\ UNCHANGED <<call, metaResult, now, inbox, handler, videoId, info, lastError, log, acqResult,
                   timer, meta, metaTimer, resp>>

\* the tool exits; the try block runs to its return or throw and the
\* finally block starts rm -rf. The tool creates the directory of its
\* output template when it writes a file.
ToolDone(r) ==
    /\ acq[r] = "tool"
    /\ \E run \in ToolRuns(videoId[r], Cur(r).lang) :
        /\ \E out \in (IF Cur(r).kind = "fallback"
                       THEN tryDownloadOriginalSubtitleBody(run, videoId[r], "fallback")
                       ELSE tryDownloadSubtitleBody(run, videoId[r], Cur(r).lang,
                                                    AttemptLabel(Cur(r).kind, Cur(r).idx))) :
              log' = [log EXCEPT ![r][Len(log[r])].out = out]
        /\ fs' = IF run.files # {} THEN fs \cup {Cur(r).dir} ELSE fs
    /\ acq' = [acq EXCEPT ![r] = "cleanup"]
    /\ UNCHANGED <<call, metaResult, now, inbox, handler, videoId, info, lastError, acqResult,
                   timer, meta, metaTimer, resp>>

\* rm -rf has run: the attempt returns or throws into the cascade
Cleanup(r) ==
    /\ acq[r] = "cleanup"
    /\ fs' = RemoveDir(fs, Cur(r).dir)
    /\ LET a == Cur(r)
           out == a.out
           priorities == selectLanguagePriorities(info[r])
       IN IF a.kind = "explicit"
          THEN /\ Settle(r, ExplicitResult(out, a.lang))
               /\ UNCHANGED <<lastError, log>>
          ELSE IF a.kind = "ranked"
          THEN IF out.state = "fulfilled"
               THEN /\ Settle(r, RankedResult(out, a.lang))
                    /\ UNCHANGED <<lastError, log>>
               ELSE IF IsRateLimited(out.err)
               THEN /\ lastError' = [lastError EXCEPT ![r] = out.err]
                    /\ IF a.idx + 1 < maxAttempts(priorities)
                       THEN StartAttempt(r, log[r], videoId[r], "ranked", a.idx + 1,
                                         priorities[a.idx + 2].lang)
                       ELSE StartAttempt(r, log[r], videoId[r], "fallback", 0,
                                         FallbackSubLang(FallbackLanguage(info[r])))
                    /\ UNCHANGED <<handler, acqResult, meta, metaTimer, resp>>
               ELSE /\ Settle(r, RankedResult(out, a.lang))
                    /\ UNCHANGED <<lastError, log>>
          ELSE /\ Settle(r, FallbackResult(out, lastError[r]))
               /\ UNCHANGED <<lastError, log>>
    /\ UNCHANGED <<call, metaResult, now, inbox, videoId, info, timer>>

\* ------------------------------------------------------------------------
\* withTimeout and the rest of the handler
\* ------------------------------------------------------------------------

\* a deadline whose rejection reaches the handler whatever the race decided
TimerFire_Unconditional(r) ==
    /\ timer[r] = "armed"
    /\ timer' = [timer EXCEPT ![r] = "fired"]
    /\ handler' = [handler EXCEPT ![r] = "done"]
    /\ resp' = [resp EXCEPT ![r] = Append(@, CatchResponse(
           TimeoutError("Transcript download timed out")))]
    /\ UNCHANGED <<call, metaResult, now, fs, inbox, videoId, acq, info, lastError, log,
                   acqResult, meta, metaTimer>>

\* the setTimeout callback of the acquisition deadline (30000 ms) runs; the
\* race is decided by it only if the acquisition has not settled
TimerFire(r) ==
    /\ timer[r] = "armed"
    /\ timer' = [timer EXCEPT ![r] = "fired"]
    /\ IF handler[r] = "awaitAcq"
       THEN /\ handler' = [handler EXCEPT ![r] = "done"]
            /\ resp' = [resp EXCEPT ![r] = Append(@, CatchResponse(
                   TimeoutError("Transcript download timed out")))]
       ELSE UNCHANGED <<handler, resp>>
    /\ UNCHANGED <<call, metaResult, now, fs, inbox, videoId, acq, info, lastError, log, acqResult,
                   meta, metaTimer>>

\* the promise of getVideoMetadata for one run of the tool
getVideoMetadata(run) ==
    IF run.exitCode # 0 THEN Rejected(parseYtDlpError(run.stderr, "meta"))
    ELSE IF ~run.json THEN Rejected(ForeignError("SyntaxError", "meta"))
    ELSE [Pending EXCEPT !.state = "fulfilled"]

\* a handler that answers with the transcript whatever became of the metadata
MetadataResponse_IgnoresFailure(res) == SuccessJson

\* the handler after `await withTimeout(getVideoMetadata(...))`
MetadataResponse(res) ==
    IF res.state = "fulfilled" THEN SuccessJson ELSE CatchResponse(res.err)

\* getVideoMetadata returns or throws
MetaDone(r) ==
    /\ meta[r] = "running"
    /\ meta' = [meta EXCEPT ![r] = "settled"]
    /\ \E run \in PrintRuns(videoId[r]) :
        /\ metaResult' = [metaResult EXCEPT ![r] = getVideoMetadata(run)]
        /\ IF handler[r] = "awaitMeta"
           THEN /\ handler' = [handler EXCEPT ![r] = "done"]
                /\ resp' = [resp EXCEPT ![r] = Append(@, MetadataResponse(getVideoMetadata(run)))]
           ELSE UNCHANGED <<handler, resp>>
    /\ UNCHANGED <<call, now, fs, inbox, videoId, acq, info, lastError, log, acqResult,
                   timer, metaTimer>>

\* the setTimeout callback of the metadata deadline (15000 ms) runs
MetaTimerFire(r) ==
    /\ metaTimer[r] = "armed"
    /\ metaTimer' = [metaTimer EXCEPT ![r] = "fired"]
    /\ IF handler[r] = "awaitMeta"
       THEN /\ handler' = [handler EXCEPT ![r] = "done"]
            /\ resp' = [resp EXCEPT ![r] = Append(@, CatchResponse(
                   TimeoutError("Metadata fetch timed out")))]
       ELSE UNCHANGED <<handler, resp>>
    /\ UNCHANGED <<call, metaResult, now, fs, inbox, videoId, acq, info, lastError, log, acqResult,
                   timer, meta>>

\* the wall clock advances by one millisecond
Tick ==
    /\ now < MaxClock
    /\ now' = now + 1
    /\ UNCHANGED <<call, metaResult, fs, inbox, handler, videoId, acq, info, lastError, log, acqResult,
                   timer, meta, metaTimer, resp>>

Next ==
    \/ \E r \in Requests : Receive(r)
    \/ \E r \in Requests : AvailDone(r)
    \/ \E r \in Requests : MkdirDone(r)
    \/ \E r \in Requests : ToolDone(r)
    \/ \E r \in Requests : Cleanup(r)
    \/ \E r \in Requests : TimerFire(r)
    \/ \E r \in Requests : MetaDone(r)
    \/ \E r \in Requests : MetaTimerFire(r)
    \/ Tick

Spec == Init /\ [][Next]_vars

SpecConc == InitConc /\ [][Next]_vars

\* one request for the video "one", in either mode
InitLive ==
    InitWith([{1} -> [url : {UrlWatchOne}, lang : {Undefined, L_fr}]]) /\ call = NoCall

\* The request of InitLive, with a tool that exits whenever it was started
\* and an event loop that runs the continuation of a settled promise: an
\* attempt does not stay for ever before the return of yt-dlp or of rm -rf.
SpecLive ==
    /\ InitLive
    /\ [][Next]_vars
    /\ \A r \in {1} : WF_vars(ToolDone(r)) /\ WF_vars(Cleanup(r))

\* ------------------------------------------------------------------------
\* selectLanguagePriorities and parseVTT applied on their own
\* ------------------------------------------------------------------------

\* the most keys of one pool of an availability snapshot
MaxPool == 2

\* the most lines of a caption document
MaxDocLines == 4

L_enOrig == <<"e", "n", "-", "o", "r", "i", "g">>

\* keys of the subtitles and automatic_captions objects
PoolTags == {S_en, L_enUS, L_enOrig, L_pt, L_ptBR, L_ptOrig, S_live_chat}

\* values of the language field
OriginalLangs == {Undefined, S_en, L_pt, L_ptBR}

\* the key lists of an object: no key twice, at most n keys
KeyLists(tags, n) ==
    UNION {{ks \in [1..k -> tags] : \A a, b \in 1..k : ks[a] = ks[b] => a = b} : k \in 0..n}

Snapshots ==
    [language : OriginalLangs,
     subtitles : KeyLists(PoolTags, MaxPool),
     automatic_captions : KeyLists(PoolTags, MaxPool)]

D_timestamp == <<"0", "0", ":", "0", "1", " ", "-", "-", ">", " ", "0", "0", ":", "0", "2">>
D_hello == <<"h", "e", "l", "l", "o">>
D_world == <<"w", "o", "r", "l", "d">>
D_taggedHello == <<"<", "c", ">", "h", "e", "l", "l", "o", "<", "/", "c", ">">>
D_one == <<"1">>
D_note == <<"N", "O", "T", "E", " ", "x">>

\* lines of a caption document
DocLines == {S_WEBVTT, <<>>, D_timestamp, D_hello, D_world, D_taggedHello, D_one, D_note}

\* the line lists of the documents of k lines
LineLists(k) == [1..k -> DocLines]

InitPure ==
    /\ InitWith({<<>>})
    /\ \/ \E i \in Snapshots :
              call = [fn |-> "selectLanguagePriorities", arg |-> i, ret |-> <<>>, done |-> FALSE]
       \/ \E k \in 0..MaxDocLines : \E ls \in LineLists(k) :
              call = [fn |-> "parseVTT", arg |-> Join(ls, <<"\n">>), ret |-> <<>>,
                      done |-> FALSE]

SystemVars == <<now, fs, inbox, handler, videoId, acq, info, lastError, log, acqResult,
                timer, meta, metaResult, metaTimer, resp>>

\* selectLanguagePriorities(info) returns
Prioritize ==
    /\ call.fn = "selectLanguagePriorities"
    /\ ~call.done
    /\ call' = [call EXCEPT !.ret = selectLanguagePriorities(call.arg), !.done = TRUE]
    /\ UNCHANGED SystemVars

\* parseVTT(content) returns
Parse ==
    /\ call.fn = "parseVTT"
    /\ ~call.done
    /\ call' = [call EXCEPT !.ret = parseVTT(call.arg), !.done = TRUE]
    /\ UNCHANGED SystemVars

NextPure == Prioritize \/ Parse

SpecPure == InitPure /\ [][NextPure]_vars

\* ------------------------------------------------------------------------
\* Properties
\* ------------------------------------------------------------------------

\* the attempts of request r of the given kind, as positions of its log
AttemptsOf(r, kind) == {i \in DOMAIN log[r] : log[r][i].kind = kind}

\* the acquisition of r runs for an explicit language
ExplicitMode(r) ==
    /\ handler[r] # "idle"
    /\ Truthy(videoId[r])
    /\ Truthy(HandlerLang(inbox[r].lang)) /\ inbox[r].lang # L_auto

RateLimitedAt(r, i) ==
    /\ log[r][i].out.state = "rejected"
    /\ log[r][i].out.err.te
    /\ log[r][i].out.err.code = "RATE_LIMITED"

\* C1: a request makes at most three download attempts: at most two on
\* ranked candidates, which are candidates 0 and 1 of the prioritized list,
\* then at most one last-resort attempt; candidate 2 and later are never
\* attempted.
C1_AtMostThreeAttempts ==
    \A r \in Requests :
        /\ Len(log[r]) <= 3
        /\ Cardinality(AttemptsOf(r, "ranked")) <= 2
        /\ Cardinality(AttemptsOf(r, "fallback")) <= 1
        /\ \A i \in AttemptsOf(r, "ranked") :
              /\ log[r][i].idx \in {0, 1}
              /\ log[r][i].idx < Len(selectLanguagePriorities(info[r]))
              /\ log[r][i].lang = selectLanguagePriorities(info[r])[log[r][i].idx + 1].lang
        /\ \A i \in AttemptsOf(r, "fallback") : i = Len(log[r])

\* C1 witness: a settled request that made three attempts although its
\* prioritized list has a candidate 2
C1_Witness ==
    \E r \in Requests :
        /\ acq[r] = "settled"
        /\ Len(selectLanguagePriorities(info[r])) >= 3
        /\ Len(log[r]) = 3
        /\ Cardinality(AttemptsOf(r, "ranked")) = 2

\* C2: the ranked candidates are attempted one at a time in priority order:
\* candidate 0 first, candidate 1 only right after candidate 0 failed with
\* RATE_LIMITED; a ranked attempt that fails with another kind is the last
\* attempt of the request, and the acquisition fails with exactly its error
\* (which the caller receives unless the deadline answered first).
C2_RankedInOrder ==
    \A r \in Requests : \A i \in AttemptsOf(r, "ranked") :
        /\ log[r][i].idx = 0 => i = 1
        /\ log[r][i].idx = 1 =>
              /\ i = 2
              /\ log[r][1].kind = "ranked" /\ log[r][1].idx = 0
              /\ RateLimitedAt(r, 1)
        /\ i < Len(log[r]) => log[r][i].out.state # "pending"
        /\ (log[r][i].out.state = "rejected" /\ ~RateLimitedAt(r, i)) =>
              /\ i = Len(log[r])
              /\ acq[r] \in {"cleanup", "settled"}
              /\ acq[r] = "settled" =>
                    /\ acqResult[r] = Rejected(log[r][i].out.err)
                    /\ resp[r] # <<>>
                    /\ resp[r][1] \in {CatchResponse(log[r][i].out.err),
                                       ErrorJson("TIMEOUT", 504)}

\* C2 witness: candidate 0 of a list of two or more failed with
\* ACCESS_DENIED and the request ended with it
C2_Witness ==
    \E r \in Requests :
        /\ acq[r] = "settled"
        /\ Len(selectLanguagePriorities(info[r])) >= 2
        /\ Len(log[r]) = 1
        /\ log[r][1].kind = "ranked"
        /\ log[r][1].out.err.code = "ACCESS_DENIED"
        /\ resp[r] = <<ErrorJson("ACCESS_DENIED", 403)>>

\* C3: a request for an explicit language makes exactly one attempt, for
\* that language, fetches no availability and has no last resort; a failure
\* of the attempt is the failure of the acquisition, unchanged; a success
\* reports the requested language with wasAutoDetected false.
C3_ExplicitOneAttempt ==
    \A r \in Requests : ExplicitMode(r) =>
        /\ acq[r] \notin {"none", "avail"}
        /\ info[r] = NoInfo
        /\ Len(log[r]) = 1
        /\ log[r][1].kind = "explicit"
        /\ log[r][1].lang = inbox[r].lang
        /\ ~log[r][1].autoOnly
        /\ acq[r] = "settled" =>
              /\ log[r][1].out.state # "pending"
              /\ log[r][1].out.state = "rejected" => acqResult[r] = log[r][1].out
              /\ log[r][1].out.state = "fulfilled" =>
                    /\ acqResult[r].state = "fulfilled"
                    /\ acqResult[r].transcript = log[r][1].out.transcript
                    /\ acqResult[r].detectedLanguage = inbox[r].lang
                    /\ ~acqResult[r].wasAutoDetected

\* C3 witness: an explicit request whose workspace held no caption file of
\* the requested language failed with NO_SUBTITLES
C3_Witness ==
    \E r \in Requests :
        /\ ExplicitMode(r)
        /\ acq[r] = "settled"
        /\ acqResult[r].err.message = "No subtitles available for language"
        /\ resp[r] = <<ErrorJson("NO_SUBTITLES", 404)>>

\* C4: in auto-detect mode with two or more candidates, when candidates 0
\* and 1 both failed with RATE_LIMITED a last-resort attempt is made, and
\* when it succeeds the acquisition succeeds with wasAutoDetected true after
\* exactly two ranked attempts and one last-resort attempt.
C4_FallbackSucceeds ==
    \A r \in Requests :
        (/\ acq[r] = "settled"
         /\ Len(selectLanguagePriorities(info[r])) >= 2
         /\ \E i, j \in AttemptsOf(r, "ranked") :
               /\ log[r][i].idx = 0 /\ RateLimitedAt(r, i)
               /\ log[r][j].idx = 1 /\ RateLimitedAt(r, j))
        => /\ Cardinality(AttemptsOf(r, "ranked")) = 2
           /\ Cardinality(AttemptsOf(r, "fallback")) = 1
           /\ Len(log[r]) = 3
           /\ log[r][3].kind = "fallback"
           /\ log[r][3].out.state = "fulfilled" =>
                 /\ acqResult[r].state = "fulfilled"
                 /\ acqResult[r].wasAutoDetected
                 /\ acqResult[r].transcript = log[r][3].out.transcript

\* C4 witness: two rate-limited ranked attempts, a successful last resort,
\* and the success delivered to the handler
C4_Witness ==
    \E r \in Requests :
        /\ acq[r] = "settled"
        /\ Len(log[r]) = 3
        /\ RateLimitedAt(r, 1) /\ RateLimitedAt(r, 2)
        /\ log[r][3].out.state = "fulfilled"
        /\ acqResult[r].wasAutoDetected
        /\ handler[r] = "awaitMeta"

\* the rate-limit error the ranked attempts of r left behind: that of the
\* latest ranked attempt that failed with RATE_LIMITED
Remembered(r) ==
    LET hits == {i \in AttemptsOf(r, "ranked") : RateLimitedAt(r, i)} IN
    IF hits = {} THEN NoError
    ELSE log[r][CHOOSE i \in hits : \A j \in hits : j <= i].out.err

\* C5: when the last-resort attempt fails, the acquisition fails with that
\* attempt's error if it is RATE_LIMITED; otherwise with the rate-limit error
\* remembered from the ranked attempts if there is one, else with the
\* attempt's own error, else with a generic NO_SUBTITLES.
C5_FallbackFailure ==
    \A r \in Requests : \A i \in AttemptsOf(r, "fallback") :
        (acq[r] = "settled" /\ log[r][i].out.state = "rejected") =>
            LET own == log[r][i].out.err IN
            acqResult[r] = Rejected(
                IF own.te /\ own.code = "RATE_LIMITED" THEN own
                ELSE IF Remembered(r) # NoError THEN Remembered(r)
                ELSE IF own.te THEN own
                ELSE TranscriptError("No subtitles available for this video",
                                     "NO_SUBTITLES", 404, "cascade"))

\* C5 witness: the last resort failed with NO_SUBTITLES and the request
\* failed with the rate-limit error of ranked candidate 1
C5_Witness ==
    \E r \in Requests :
        /\ acq[r] = "settled"
        /\ Len(log[r]) = 3
        /\ log[r][3].kind = "fallback"
        /\ log[r][3].out.err.code = "NO_SUBTITLES"
        /\ acqResult[r].err.code = "RATE_LIMITED"
        /\ acqResult[r].err.at = "ranked1"

\* C6: when a download attempt returns or throws, the workspace it created
\* does not exist, whatever the way it completed.
C6_WorkspaceRemoved ==
    [][\A r \in Requests :
          (acq[r] = "cleanup" /\ acq'[r] # "cleanup") => Cur(r).dir \notin fs']_vars

\* C6 witness: an attempt that found a caption file parsing to nothing has
\* thrown, and its workspace is gone
C6_Witness ==
    \E r \in Requests :
        /\ acq[r] = "settled"
        /\ log[r] # <<>>
        /\ Cur(r).out.err.message = "Transcript is empty"
        /\ Cur(r).dir \notin fs

\* the caller of r has received TIMEOUT from the acquisition deadline
TimedOut(r) ==
    /\ timer[r] = "fired"
    /\ meta[r] = "none"
    /\ resp[r] = <<ErrorJson("TIMEOUT", 504)>>

\* C7: when the caller receives TIMEOUT, no workspace of the request exists.
C7_NoWorkspaceAtTimeout ==
    \A r \in Requests :
        TimedOut(r) => \A i \in DOMAIN log[r] : log[r][i].dir \notin fs

\* C8: if the acquisition has not completed when its deadline fires, the
\* response is the error TIMEOUT with status 504, and nothing the
\* acquisition does later changes it; no error of the acquisition itself
\* has the kind TIMEOUT.
C8_TimeoutResponse ==
    [][\A r \in Requests :
          /\ (timer[r] = "armed" /\ timer'[r] = "fired" /\ acq[r] # "settled")
                => resp'[r] = <<ErrorJson("TIMEOUT", 504)>>
          /\ (resp[r] # <<>> /\ timer[r] = "fired" /\ resp[r][1].code = "TIMEOUT")
                => resp'[r] = resp[r]
          /\ acqResult'[r].err.code # "TIMEOUT"]_vars

\* C8 witness: the deadline answered TIMEOUT and the acquisition succeeded
\* afterwards
C8_Witness ==
    \E r \in Requests :
        /\ TimedOut(r)
        /\ acq[r] = "settled"
        /\ acqResult[r].state = "fulfilled"
        /\ \E i \in DOMAIN log[r] : ~log[r][i].late

\* C9: once the deadline of a request has fired, its tool invocation in
\* flight is abandoned and no further one is started.
C9_NothingRunsAfterDeadline ==
    \A r \in Requests :
        /\ timer[r] = "fired" => acq[r] \notin {"avail", "tool"}
        /\ \A i \in DOMAIN log[r] : ~log[r][i].late

\* two attempts in progress at the same time
InProgress(r) == acq[r] \in {"mkdir", "tool", "cleanup"}

\* C10: two download attempts in progress at the same time have different
\* workspace names.
C10_DistinctWorkspaces ==
    \A r1, r2 \in Requests :
        (r1 # r2 /\ InProgress(r1) /\ InProgress(r2)) => Cur(r1).dir # Cur(r2).dir

\* the host of the URL of a query is outside the allow-list (a URL that is
\* missing or does not parse has no host)
HostOutsideAllowList(url) ==
    \/ ~url.parses
    \/ \A host \in validHosts :
          url.hostname # host /\ ~EndsWith(url.hostname, <<".">> \o host)

\* C11: a request whose URL has a host outside the allow-list, or from which
\* no video identifier can be extracted, is answered INVALID_URL (400) and
\* nothing else: no tool run (availability, download, metadata) is started and
\* no workspace is created for it.
C11_InvalidUrlFailsFirst ==
    \A r \in Requests :
        (/\ handler[r] # "idle"
         /\ HostOutsideAllowList(inbox[r].url) \/ ~Truthy(extractVideoId(inbox[r].url)))
        => /\ handler[r] = "done"
           /\ resp[r] = <<ErrorJson("INVALID_URL", 400)>>
           /\ acq[r] \in {"none", "settled"}
           /\ info[r] = NoInfo
           /\ log[r] = <<>>
           /\ meta[r] = "none"
           /\ (Requests = {r} => fs = {})

\* C11 witness: a request for a video of another host was answered
\* INVALID_URL although its URL carries a video id
C11_Witness ==
    \E r \in Requests :
        /\ HostOutsideAllowList(inbox[r].url)
        /\ Truthy(extractVideoId(inbox[r].url))
        /\ resp[r] = <<ErrorJson("INVALID_URL", 400)>>

\* selectLanguagePriorities has returned for the snapshot call.arg
Prioritized == call.fn = "selectLanguagePriorities" /\ call.done

\* the snapshot's pools: its keys without the non-language sentinels
ManualPool(i) == Range(i.subtitles) \ invalidLangs
AutoPool(i) == Range(i.automatic_captions) \ invalidLangs

\* C12: the candidate list of the prioritizer has no two elements with the
\* same (language tag, isManual) pair.
C12_NoDuplicateCandidate ==
    Prioritized =>
        \A i, j \in DOMAIN call.ret :
            (call.ret[i].lang = call.ret[j].lang
             /\ call.ret[i].isManual = call.ret[j].isManual) => i = j

\* C12 witness: a tag that is the original language, English and a key of
\* both pools is listed once as manual and once as auto
C12_Witness ==
    /\ Prioritized
    /\ call.arg.language = S_en
    /\ S_en \in ManualPool(call.arg) /\ S_en \in AutoPool(call.arg)
    /\ call.ret[1] = [lang |-> S_en, isManual |-> TRUE]
    /\ Len(call.ret) >= 2

\* C13: when the manual pool has a tag equal to the original language or to
\* the original language's base code, the first candidate is such a tag, as
\* manual.
C13_OriginalManualFirst ==
    (/\ Prioritized
     /\ Truthy(call.arg.language)
     /\ {call.arg.language, baseLangCode(call.arg.language)} \cap ManualPool(call.arg) # {})
    => /\ call.ret # <<>>
       /\ call.ret[1].isManual
       /\ call.ret[1].lang \in {call.arg.language, baseLangCode(call.arg.language)}
       /\ call.ret[1].lang \in ManualPool(call.arg)
       /\ call.arg.language \in ManualPool(call.arg) => call.ret[1].lang = call.arg.language

\* C13 witness: original "pt-BR", manual pool with "pt" only after an English
\* key: ("pt", manual) is first
C13_Witness ==
    /\ Prioritized
    /\ call.arg.language = L_ptBR
    /\ call.arg.subtitles = <<S_en, L_pt>>
    /\ call.ret[1] = [lang |-> L_pt, isManual |-> TRUE]

\* C14: when the original language is known, with base code B, and the auto
\* pool has the key "B-orig", the list contains (B, auto) and does not
\* contain ("B-orig", auto).
C14_OrigKeyNeverCandidate ==
    (/\ Prioritized
     /\ Truthy(call.arg.language)
     /\ (baseLangCode(call.arg.language) \o S_orig) \in AutoPool(call.arg))
    => /\ [lang |-> baseLangCode(call.arg.language), isManual |-> FALSE] \in Range(call.ret)
       /\ [lang |-> baseLangCode(call.arg.language) \o S_orig, isManual |-> FALSE]
             \notin Range(call.ret)

\* a text that is empty or made of white space only
Blank(text) == \A k \in DOMAIN text : text[k] \in WhiteSpace

\* C15: no successful result carries an empty or white-space-only
\* transcript, neither the result of an attempt (ranked, explicit or last
\* resort) nor the result of the acquisition; an attempt that ended on an
\* empty transcript failed with NO_SUBTITLES (404).
C15_NoEmptyTranscript ==
    \A r \in Requests :
        /\ acqResult[r].state = "fulfilled" => ~Blank(acqResult[r].transcript)
        /\ \A i \in DOMAIN log[r] :
              /\ log[r][i].out.state = "fulfilled" => ~Blank(log[r][i].out.transcript)
              /\ (log[r][i].out.state = "rejected"
                  /\ log[r][i].out.err.message = "Transcript is empty")
                 => /\ log[r][i].out.err.te
                    /\ log[r][i].out.err.code = "NO_SUBTITLES"
                    /\ log[r][i].out.err.statusCode = 404

\* C15 witness: the last-resort attempt of a request read a caption file
\* without text and failed with NO_SUBTITLES
C15_Witness ==
    \E r \in Requests :
        /\ Len(log[r]) = 3
        /\ log[r][3].kind = "fallback"
        /\ log[r][3].out.state = "rejected"
        /\ log[r][3].out.err.message = "Transcript is empty"
        /\ log[r][3].out.err.code = "NO_SUBTITLES"

\* parseVTT has returned for the document call.arg
Parsed == call.fn = "parseVTT" /\ call.done

\* the lines of a transcript
TranscriptLines(transcript) == IF transcript = <<>> THEN <<>> ELSE Split(transcript, "\n")

\* the positions of textLines whose line differs from the line before it
RunStarts(textLines) ==
    {i \in DOMAIN textLines : i = 1 \/ textLines[i] # textLines[i - 1]}

\* C16: the transcript of parseVTT has no two adjacent equal lines, and it
\* loses nothing else: its lines are the collected text lines, in order,
\* without those equal to the line just before them (so equal lines with a
\* different line between them are both kept).
C16_AdjacentDuplicatesOnly ==
    Parsed =>
        LET out == TranscriptLines(call.ret)
            textLines == CollectLines(Split(call.arg, "\n"), FALSE, <<>>)
            starts == RunStarts(textLines)
        IN /\ \A k \in 1..(Len(out) - 1) : out[k] # out[k + 1]
           /\ Len(out) = Cardinality(starts)
           /\ \A i \in starts : out[Cardinality({j \in starts : j <= i})] = textLines[i]

\* C16 witness: the text lines "hello", "hello", "world" give the
\* transcript "hello\nworld"
C16_Witness ==
    /\ Parsed
    /\ CollectLines(Split(call.arg, "\n"), FALSE, <<>>) = <<D_hello, D_hello, D_world>>
    /\ call.ret = D_hello \o <<"\n">> \o D_world

\* the error kinds of a failure response, each with its status
KindStatus ==
    {<<"INVALID_URL", 400>>, <<"VIDEO_NOT_FOUND", 404>>, <<"RATE_LIMITED", 429>>,
     <<"ACCESS_DENIED", 403>>, <<"NO_SUBTITLES", 404>>, <<"TIMEOUT", 504>>,
     <<"UNKNOWN", 500>>}

\* C17: every failure response carries one of the seven kinds, with the
\* status fixed by the kind; a failure of the acquisition or of the metadata
\* fetch by an exception that is not an engine error is answered UNKNOWN
\* (500), unless a deadline answered first.
C17_ClosedTaxonomy ==
    \A r \in Requests :
        /\ \A k \in DOMAIN resp[r] :
              ~resp[r][k].success => <<resp[r][k].code, resp[r][k].statusCode>> \in KindStatus
        /\ (acqResult[r].state = "rejected" /\ ~acqResult[r].err.te /\ resp[r] # <<>>)
           => resp[r][1] \in {ErrorJson("UNKNOWN", 500), ErrorJson("TIMEOUT", 504)}
        /\ (metaResult[r].state = "rejected" /\ ~metaResult[r].err.te /\ resp[r] # <<>>)
           => resp[r][1] \in {ErrorJson("UNKNOWN", 500), ErrorJson("TIMEOUT", 504)}

\* C17 witness: the availability answer was not a JSON document and the
\* request was answered UNKNOWN (500)
C17_Witness ==
    \E r \in Requests :
        /\ acqResult[r].state = "rejected"
        /\ ~acqResult[r].err.te
        /\ acqResult[r].err.at = "avail"
        /\ resp[r] = <<ErrorJson("UNKNOWN", 500)>>

\* C18: the metadata fetch is started only after the acquisition succeeded;
\* a success response is sent only if both succeeded; when the metadata
\* fetch fails, by the tool or by its own deadline, the request is answered
\* with that error's kind and not with the transcript.
C18_MetadataAfterAcquisition ==
    \A r \in Requests :
        /\ (meta[r] # "none" \/ metaTimer[r] # "off" \/ metaResult[r] # Pending)
           => acqResult[r].state = "fulfilled"
        /\ (\E k \in DOMAIN resp[r] : resp[r][k].success)
           => /\ acqResult[r].state = "fulfilled"
              /\ metaResult[r].state = "fulfilled"
        /\ (metaResult[r].state = "rejected" /\ handler[r] = "done")
           => resp[r] \in {<<CatchResponse(metaResult[r].err)>>, <<ErrorJson("TIMEOUT", 504)>>}
        /\ (metaTimer[r] = "fired" /\ meta[r] = "running")
           => resp[r] = <<ErrorJson("TIMEOUT", 504)>>

\* C18 witness: the acquisition succeeded, the metadata run was rate
\* limited, and the request was answered RATE_LIMITED (429)
C18_Witness ==
    \E r \in Requests :
        /\ acqResult[r].state = "fulfilled"
        /\ metaResult[r].state = "rejected"
        /\ metaResult[r].err.code = "RATE_LIMITED"
        /\ resp[r] = <<ErrorJson("RATE_LIMITED", 429)>>

\* the acquisition of r runs in auto-detect mode and its availability fetch
\* has returned a snapshot
AvailabilityKnown(r) ==
    /\ handler[r] # "idle"
    /\ Truthy(videoId[r])
    /\ ~ExplicitMode(r)
    /\ acq[r] \notin {"none", "avail"}
    /\ ~(acqResult[r].state = "rejected" /\ acqResult[r].err.at = "avail")

\* C19: in auto-detect mode, when the prioritized list of the fetched
\* snapshot is empty, the acquisition fails with NO_SUBTITLES (404) at once:
\* no attempt is made, the last resort included, and no workspace is created.
C19_EmptyListNoAttempt ==
    \A r \in Requests :
        (AvailabilityKnown(r) /\ Len(selectLanguagePriorities(info[r])) = 0)
        => /\ acq[r] = "settled"
           /\ acqResult[r] = Rejected(TranscriptError(
                  "No subtitles available for this video", "NO_SUBTITLES", 404, "cascade"))
           /\ log[r] = <<>>
           /\ resp[r] \in {<<ErrorJson("NO_SUBTITLES", 404)>>, <<ErrorJson("TIMEOUT", 504)>>}
           /\ meta[r] = "none"
           /\ (Requests = {r} => fs = {})

\* C19 witness: the only caption key of the video is the live-chat
\* sentinel, and the request was answered NO_SUBTITLES without an attempt
C19_Witness ==
    \E r \in Requests :
        /\ AvailabilityKnown(r)
        /\ info[r] = InfoChat
        /\ log[r] = <<>>
        /\ resp[r] = <<ErrorJson("NO_SUBTITLES", 404)>>

\* C20: the availability fetch is made once, at the start of an auto-detect
\* acquisition, and has returned before any download attempt starts; when it
\* fails, whatever the kind, the acquisition fails with its error, the
\* awaiting handler answers with it, and no download attempt is made.
C20_AvailabilityFirst ==
    [][\A r \in Requests :
          /\ acq'[r] = "avail" => (acq[r] \in {"none", "avail"} /\ log'[r] = <<>>)
          /\ (acq[r] = "avail" /\ acq'[r] # "avail") =>
                IF log'[r] # <<>>
                THEN /\ Len(selectLanguagePriorities(info'[r])) > 0
                     /\ acqResult'[r] = Pending
                ELSE /\ acq'[r] = "settled"
                     /\ acqResult'[r].state = "rejected"
                     /\ handler[r] = "awaitAcq" =>
                           resp'[r] = <<CatchResponse(acqResult'[r].err)>>
          /\ (acqResult'[r].state = "rejected" /\ acqResult'[r].err.at = "avail") =>
                /\ acq'[r] = "settled"
                /\ log'[r] = <<>>
                /\ info'[r] = NoInfo]_vars

\* C20 witness: the availability fetch was rate limited and the request was
\* answered RATE_LIMITED (429) without a download attempt
C20_Witness ==
    \E r \in Requests :
        /\ acqResult[r].state = "rejected"
        /\ acqResult[r].err.at = "avail"
        /\ acqResult[r].err.code = "RATE_LIMITED"
        /\ log[r] = <<>>
        /\ resp[r] = <<ErrorJson("RATE_LIMITED", 429)>>

\* C21: no candidate of the prioritizer, manual or auto, carries the
\* non-language sentinel tag live_chat, whatever the snapshot (the sentinel
\* may be the only key of a pool); the ranked attempts request candidates of
\* this list only.
C21_NoSentinelCandidate ==
    Prioritized => \A k \in DOMAIN call.ret : call.ret[k].lang # S_live_chat

\* C21 witness: the sentinel is the only manual key and one of two auto
\* keys; the list is the other auto key alone
C21_Witness ==
    /\ Prioritized
    /\ call.arg.subtitles = <<S_live_chat>>
    /\ call.arg.automatic_captions = <<S_live_chat, L_pt>>
    /\ call.ret = <<[lang |-> L_pt, isManual |-> FALSE]>>

\* the original language of the snapshot is unknown or not English
OriginalNotEnglish(i) == ~Truthy(i.language) \/ baseLangCode(i.language) # S_en

EnAuto == [lang |-> S_en, isManual |-> FALSE]

\* C22: when the auto pool has no key "en" and the original
\* language is not English, the list has no ("en", auto) candidate.
C22_EnAutoOnlyForBareKey ==
    (Prioritized /\ OriginalNotEnglish(call.arg) /\ S_en \notin AutoPool(call.arg))
    => EnAuto \notin Range(call.ret)

\* the part of a tag before its first hyphen
RECURSIVE BeforeFirstHyphen(_)
BeforeFirstHyphen(tag) ==
    IF tag = <<>> \/ Head(tag) = "-" THEN <<>>
    ELSE <<Head(tag)>> \o BeforeFirstHyphen(Tail(tag))

\* C23: the last-resort attempt of an auto-detect request asks for
\* auto-generated captions only, and the tag it requests is the base code of
\* the original language that the availability fetch reported.
C23_FallbackBaseOfOriginal ==
    \A r \in Requests : \A i \in AttemptsOf(r, "fallback") :
        /\ log[r][i].autoOnly
        /\ Truthy(info[r].language)
        /\ log[r][i].lang = BeforeFirstHyphen(info[r].language)

\* C23, amended: the last-resort attempt asks for auto-generated captions
\* only; the tag it requests is the base code of the reported original
\* language, and "en" when the availability fetch reported none.
C23_FallbackBaseOrEnglish ==
    \A r \in Requests : \A i \in AttemptsOf(r, "fallback") :
        /\ ~ExplicitMode(r)
        /\ log[r][i].autoOnly
        /\ log[r][i].lang = IF info[r].language = Undefined THEN S_en
                            ELSE BeforeFirstHyphen(info[r].language)

\* C23 witness: the original language is "pt-BR", both ranked attempts were
\* rate limited, and the last resort requested "pt"
C23_Witness ==
    \E r \in Requests :
        /\ info[r].language = L_ptBR
        /\ Len(log[r]) = 3
        /\ log[r][3].kind = "fallback"
        /\ log[r][3].autoOnly
        /\ log[r][3].lang = L_pt

\* doc is the sequence of the trimmed lines of a document.
\* A timestamp line comes before line i of doc with no header or empty
\* line between it and line i
InCueAt(doc, i) ==
    \E j \in 1..(i - 1) :
        /\ ~IsHeaderLine(doc[j]) /\ IsTimestampLine(doc[j])
        /\ \A k \in (j + 1)..(i - 1) : ~IsHeaderLine(doc[k])

\* line i of doc is text: no header, empty, timestamp, numeric or NOTE
\* line, and something is left of it without its tags
IsTextLine(doc, i) ==
    /\ ~IsHeaderLine(doc[i]) /\ ~IsTimestampLine(doc[i])
    /\ ~IsCueIdLine(doc[i])
    /\ CleanText(doc[i]) # <<>>

\* C24: the parser emits exactly the text lines that follow a timestamp
\* line with no header or empty line in between (numeric and NOTE lines are
\* dropped and do not end the cue; text outside a cue is dropped), less the
\* adjacent repetitions; the empty document and a document without text
\* lines parse to the empty string.
C24_OnlyCueText ==
    Parsed =>
        LET lines == Split(call.arg, "\n")
            doc == [i \in DOMAIN lines |-> Trim(lines[i])]
            emitted == {i \in DOMAIN doc : InCueAt(doc, i) /\ IsTextLine(doc, i)}
            inCue == [k \in 1..Cardinality(emitted) |->
                        CleanText(doc[CHOOSE i \in emitted :
                            Cardinality({j \in emitted : j <= i}) = k])]
        IN /\ call.ret = Join(Deduplicate(inCue), <<"\n">>)
           /\ (\A i \in DOMAIN doc : ~IsTextLine(doc, i)) => call.ret = <<>>
           /\ call.arg = <<>> => call.ret = <<>>

\* C24 witness: of two text lines after a timestamp, the one after an
\* empty line is dropped
C24_Witness ==
    /\ Parsed
    /\ Split(call.arg, "\n") = <<D_timestamp, D_hello, <<>>, D_world>>
    /\ call.ret = D_hello

\* C25: the last-resort attempt starts only after one or two ranked
\* attempts, all of which failed with RATE_LIMITED, so that lastError holds
\* the rate-limit error of the latest of them; an acquisition that fails
\* after the last resort ran fails with kind RATE_LIMITED.
C25_FallbackAfterRateLimits ==
    \A r \in Requests : \A i \in AttemptsOf(r, "fallback") :
        /\ i \in {2, 3}
        /\ \A j \in 1..(i - 1) : log[r][j].kind = "ranked" /\ RateLimitedAt(r, j)
        /\ lastError[r] = log[r][i - 1].out.err
        /\ (acq[r] = "settled" /\ acqResult[r].state = "rejected")
           => /\ acqResult[r].err.te
              /\ acqResult[r].err.code = "RATE_LIMITED"
              /\ acqResult[r].err.statusCode = 429

\* C25 witness: the only candidate was rate limited, the last resort failed
\* with VIDEO_NOT_FOUND, and the acquisition failed with the rate-limit
\* error of the candidate
C25_Witness ==
    \E r \in Requests :
        /\ acq[r] = "settled"
        /\ Len(selectLanguagePriorities(info[r])) = 1
        /\ Len(log[r]) = 2
        /\ log[r][2].kind = "fallback"
        /\ log[r][2].out.err.code = "VIDEO_NOT_FOUND"
        /\ acqResult[r].err.code = "RATE_LIMITED"
        /\ acqResult[r].err.at = "ranked0"

\* C26: the two ranked attempts of a request do not make the same download:
\* the tag requested for candidate 1 differs from the tag requested for
\* candidate 0.
C26_RankedTagsDiffer ==
    \A r \in Requests : \A i, j \in AttemptsOf(r, "ranked") :
        i # j => log[r][i].lang # log[r][j].lang

\* the names a workspace can have
Workspaces == {outputDir(vid, t) : vid \in {V_abc, V_xyz, V_one}, t \in 0..MaxClock}

\* C27: a workspace that exists is removed at some later time, given that
\* the tool run of its attempt returns; this holds as well after the
\* deadline fired and the caller received TIMEOUT.
C27_WorkspaceEventuallyRemoved ==
    \A d \in Workspaces : (d \in fs) ~> (d \notin fs)

\* C27 witness: the caller received TIMEOUT while an attempt was in
\* progress, and after the attempt completed no workspace is left
C27_Witness ==
    \E r \in Requests :
        /\ TimedOut(r)
        /\ acq[r] = "settled"
        /\ log[r] # <<>>
        /\ ~log[r][1].late
        /\ fs = {}

\* C28: a request gets one response, which never changes: a handler that is
\* done has sent exactly one, and no request has two. When the deadline fires
\* before the acquisition completed, the response is TIMEOUT, and the later
\* completion of the acquisition, success or failure, changes neither the
\* response nor the handler and starts no metadata fetch; when the
\* acquisition completed first, the firing of the timer changes nothing.
C28_OneResponse ==
    [][\A r \in Requests :
          /\ Len(resp'[r]) <= 1
          /\ handler'[r] = "done" <=> Len(resp'[r]) = 1
          /\ resp[r] # <<>> => resp'[r] = resp[r]
          /\ (timer[r] = "armed" /\ timer'[r] = "fired") =>
                IF acq[r] # "settled"
                THEN resp'[r] = <<ErrorJson("TIMEOUT", 504)>> /\ meta'[r] = "none"
                ELSE /\ resp'[r] = resp[r] /\ handler'[r] = handler[r]
                     /\ meta'[r] = meta[r] /\ metaTimer'[r] = metaTimer[r]
          /\ (timer[r] = "fired" /\ acq[r] # "settled" /\ acq'[r] = "settled") =>
                /\ resp'[r] = resp[r] /\ resp[r] = <<ErrorJson("TIMEOUT", 504)>>
                /\ handler'[r] = "done"
                /\ meta'[r] = "none" /\ metaTimer'[r] = "off"
                /\ metaResult'[r] = Pending]_vars

\* C28 witness: the acquisition failed with NO_SUBTITLES and was answered,
\* the timer fired afterwards, and the response is the same one
C28_Witness ==
    \E r \in Requests :
        /\ timer[r] = "fired"
        /\ acqResult[r].state = "rejected"
        /\ acqResult[r].err.code = "NO_SUBTITLES"
        /\ handler[r] = "done"
        /\ resp[r] = <<ErrorJson("NO_SUBTITLES", 404)>>

====
